---- MODULE Spec2Model ----
(***************************************************************************)
(* RSSSummary (src/AIFeeder.py): construction (load of the dedup file,     *)
(* model probe) followed by process_feeds, run after run against the same  *)
(* dedup file.                                                             *)
(*                                                                         *)
(* The world outside the process is an input: what feedparser returns for  *)
(* a feed, how an entry's content resolves and summarizes, whether a file  *)
(* operation or a backend call fails.  Under Spec the feeds are read live  *)
(* (every parse and every entry is a fresh input); under SpecTwice the     *)
(* feed documents are fixed once and every run reads the same documents.   *)
(*                                                                         *)
(* The script variant (src/main.py) keeps its processed links in a text    *)
(* file, one link per line; SpecMain runs main() over and over against     *)
(* that file.                                                              *)
(***************************************************************************)
EXTENDS Integers, Sequences, FiniteSets, TLC

\* ---------------------------------------------------------------- bounds
NumFeeds == 2      \* feed URLs in the feed list under Spec
ReplayFeeds == 1   \* feed URLs in the feed list under SpecTwice
MaxEntries == 2    \* entries a parsed feed holds at most
MaxRuns == 2       \* invocations of the program, one after the other
MaxLines == 4      \* lines the processed-links file of main.py grows to

\* ---------------------------------------------------------------- inputs
PerFeedChoices == {1, 2}        \* configured values of articles_per_feed
Ids == {"a", "b"}
NoId == ""                      \* a missing or empty id / link field
IdOrNone == Ids \cup {NoId}

\* How the body of the loop goes for an entry once it is eligible:
\*   "ok"    content resolved and summarize_article returned a summary
\*   "empty" no abstract and every feed text field empty
\*   "fail"  summarize_article returned "Summary generation failed."
\*   "raise" the loop body raised (caught by the per-feed except)
Outcomes == {"ok", "empty", "fail", "raise"}
Entries == [id : IdOrNone, link : IdOrNone, out : Outcomes]

\* What feedparser.parse did for a feed URL.
Statuses == {"ok", "bozo", "raise"}

\* The fixed feed documents of SpecTwice are built from these entries.
ReplayEntries ==
    { [id |-> "a",  link |-> "b",  out |-> "ok"],
      [id |-> NoId, link |-> "b",  out |-> "ok"],
      [id |-> "a",  link |-> NoId, out |-> "fail"],
      [id |-> "b",  link |-> "b",  out |-> "raise"] }

SeqsUpTo(S, n) == UNION { [1..k -> S] : k \in 0..n }

ReplayDocs ==
    { [status |-> "ok", entries |-> es] : es \in SeqsUpTo(ReplayEntries, MaxEntries) }
    \cup { [status |-> st, entries |-> <<>>] : st \in {"bozo", "raise"} }

\* The dedup file on disk.
AbsentFile == [kind |-> "absent", ids |-> {}]
CorruptFile == [kind |-> "corrupt", ids |-> {}]
JsonFile(S) == [kind |-> "json", ids |-> S]
FileStates == {AbsentFile, CorruptFile} \cup { JsonFile(S) : S \in SUBSET Ids }

NoReport == [written |-> FALSE, items |-> <<>>]

\* src/main.py: an entry's link ("" when empty, NoLinkKey when the entry has
\* no 'link' key) and whether its content has non-whitespace text
Links == {"a", "b"}
NoLinkKey == "<no link key>"
NoUrlAvailable == "No_URL_available"
MainEntries == [link : Links \cup {NoId, NoLinkKey}, content : {"text", "blank"}]
NoLinksFile == [exists |-> FALSE, lines |-> <<>>]
ModelProbes == {"ok", "404", "error"}

VARIABLES
    feeds,               \* self.feeds
    articles_per_feed,   \* self.articles_per_feed
    web,                 \* what the feed URLs serve
    file,                \* the processed-articles file
    run,                 \* number of the current invocation
    pc,                  \* position of the current invocation
    processed_articles,  \* self.processed_articles
    feedIdx,             \* position of "for feed_url in self.feeds"
    entryIdx,            \* position of "for entry in feed.entries"
    count,               \* count
    summaries,           \* summaries
    current_processed,   \* current_processed
    report,              \* the report artifact of this invocation
    \* history of the current invocation, read by the properties only
    probeRes,            \* outcome of the first chat probe
    pullRes,             \* outcome of ollama_client.pull
    reprobeRes,          \* outcome of the chat probe after the pull
    pulls,               \* calls of ollama_client.pull
    reprobes,            \* calls of the chat probe after the pull
    modelOk,             \* a chat probe of this invocation succeeded
    snapshot,            \* self.processed_articles as loaded
    fileAtStart,         \* the file when the invocation started
    feedStatus,          \* status of every feed parsed so far
    lastKind,            \* kind of the entry handled last in the feed being read
    lastId,              \* its ArticleIdentifier
    lastAttempted,       \* whether its content was resolved
    eligBefore,          \* eligible entries that preceded it in the feed
    cut,                 \* some entry loop ended by break or by an exception
    calls,               \* which of _generate_report, _save_processed ran
    reportRes,           \* outcome of _generate_report
    saveRes,             \* outcome of _save_processed
    \* src/main.py
    article_limit,       \* config['article_limit']
    main_file,           \* the processed-links file: whether it exists, its lines
    main_pc,             \* position of main()
    main_processed,      \* processed_articles of main()
    main_feedIdx,        \* position of "for feed_url in feeds"
    articles,            \* links of the articles fetch_valid_articles returned
    main_summaries,      \* links of the articles in summaries
    savedAtLoad,         \* links in the file when main() loaded it
    prev                 \* the invocation before: "clean" when it ran to its end
                         \* and its save, if any, succeeded; "cut" when in
                         \* addition one of its entry loops ended early;
                         \* "none" otherwise

vars == << feeds, articles_per_feed, web, file, run, pc, processed_articles,
           feedIdx, entryIdx, count, summaries, current_processed, report,
           probeRes, pullRes, reprobeRes, pulls, reprobes, modelOk, snapshot,
           fileAtStart, feedStatus, lastKind, lastId, lastAttempted,
           eligBefore, cut, calls, reportRes, saveRes, prev,
           article_limit, main_file, main_pc, main_processed, main_feedIdx,
           articles, main_summaries, savedAtLoad >>

\* ------------------------------------------------------- pure operators
FileIds(f) == IF f.kind = "json" THEN f.ids ELSE {}

\* _load_processed: the set in the file; the empty set when the file is
\* absent, and also when reading or parsing it raises (fail-open).
LoadProcessed(f, ioError) ==
    IF f.kind = "json" /\ ~ioError THEN f.ids ELSE {}

\* _save_processed: res = "ok" overwrites the file; "failOpen" raised before
\* the file was opened for writing (lock, open); "failWrite" raised after
\* open(..., 'w') truncated it.  The exception is logged, never re-raised.
SaveProcessed(f, ids, res) ==
    CASE res = "ok" -> JsonFile(ids)
      [] res = "failOpen" -> f
      [] OTHER -> CorruptFile

\* article_id = entry.get('id') or entry.get('link')
ArticleIdentifier(entry) == IF entry.id # NoId THEN entry.id ELSE entry.link

\* (variant: the filter also consults the identifiers of this run)
FilterSetWithCurrent(processed, current) == processed \cup current

\* The set line 215 tests membership in.
FilterSet(processed, current) == processed

\* (variant: the membership test is left out)
EligibleIgnoringProcessed(article_id, processed) == article_id # NoId

\* if article_id and article_id not in self.processed_articles
Eligible(article_id, processed) ==
    article_id # NoId /\ article_id \notin processed

\* (variant: the comparison is strict)
CapReachedOffByOne(cnt, n) == cnt > n

\* if count >= self.articles_per_feed: break
CapReached(cnt, n) == cnt >= n

\* (variant: the increment is left out)
CountNotIncremented(cnt) == cnt

\* count += 1
CountAfterSuccess(cnt) == cnt + 1

\* (variant: report and save run whatever was collected)
AlwaysCommit(sums) == TRUE

\* if summaries: ... else: skip report and save
ShouldCommit(sums) == sums # <<>>

\* (variant: the update is left out)
CommitWithoutUpdate(processed, current) == processed

\* self.processed_articles.update(current_processed)
CommitSet(processed, current) == processed \cup current

\* (variant: an abandoned feed ends the loop over the feeds)
AbortRunAfterAbandoned(i) == Len(feeds) + 1

\* The feed the loop takes up after a feed that was abandoned (continue, or
\* the except clause inside the for loop).
AfterAbandoned(i) == i + 1

\* (variant: a probe error other than 404 is logged and not re-raised)
AfterProbeSwallowingErrors(res) ==
    CASE res = "404" -> "pull"
      [] OTHER -> "ready"

\* _check_model_accessible: what follows each backend call.
AfterProbe(res) ==
    CASE res = "ok" -> "ready"
      [] res = "404" -> "pull"
      [] OTHER -> "aborted"
AfterPull(res) == IF res = "ok" THEN "reprobe" ELSE "aborted"
AfterReprobe(res) == IF res = "ok" THEN "ready" ELSE "aborted"

\* ---------------------------------------------------------- the web
Live == web.mode = "live"
Doc(i) == web.docs[feeds[i]]

ParseStatuses ==
    IF Live THEN Statuses ELSE {Doc(feedIdx).status}

\* The entries the for loop can yield next, and whether it can be over.
NextEntries ==
    IF Live
    THEN IF entryIdx <= MaxEntries THEN Entries ELSE {}
    ELSE IF entryIdx <= Len(Doc(feedIdx).entries)
         THEN {Doc(feedIdx).entries[entryIdx]} ELSE {}

LoopOver == IF Live THEN TRUE ELSE entryIdx > Len(Doc(feedIdx).entries)

\* ---------------------------------------------------------------- Init
FreshRun ==
    /\ pc = "start"
    /\ processed_articles = {}
    /\ feedIdx = 0
    /\ entryIdx = 0
    /\ count = 0
    /\ summaries = <<>>
    /\ current_processed = {}
    /\ report = NoReport
    /\ probeRes = "none"
    /\ pullRes = "none"
    /\ reprobeRes = "none"
    /\ pulls = 0
    /\ reprobes = 0
    /\ modelOk = FALSE
    /\ snapshot = {}
    /\ fileAtStart = file
    /\ feedStatus = <<>>
    /\ lastKind = "none"
    /\ lastId = NoId
    /\ lastAttempted = FALSE
    /\ eligBefore = 0
    /\ cut = FALSE
    /\ calls = {}
    /\ reportRes = "none"
    /\ saveRes = "none"

\* main() before its first step
FreshMain ==
    /\ main_pc = "ensure"
    /\ main_processed = {}
    /\ main_feedIdx = 0
    /\ articles = <<>>
    /\ main_summaries = <<>>
    /\ savedAtLoad = {}

\* main.py is not run
MainIdle ==
    /\ article_limit = 1
    /\ main_file = NoLinksFile
    /\ FreshMain

Init ==
    /\ MainIdle
    /\ feeds = [i \in 1..NumFeeds |-> i]
    /\ articles_per_feed \in PerFeedChoices
    /\ web = [mode |-> "live", docs |-> <<>>]
    /\ file \in FileStates
    /\ run = 1
    /\ prev = "none"
    /\ FreshRun

InitTwice ==
    /\ MainIdle
    /\ feeds = [i \in 1..ReplayFeeds |-> i]
    /\ articles_per_feed \in PerFeedChoices
    /\ web \in { [mode |-> "fixed", docs |-> d] : d \in [1..ReplayFeeds -> ReplayDocs] }
    /\ file = AbsentFile
    /\ run = 1
    /\ prev = "none"
    /\ FreshRun

config == << feeds, articles_per_feed, web >>
loopVars == << feedIdx, entryIdx, count, summaries, current_processed >>
probeVars == << probeRes, pullRes, reprobeRes, pulls, reprobes, modelOk >>
loadVars == << processed_articles, snapshot, fileAtStart >>
entryHist == << lastKind, lastId, lastAttempted, eligBefore >>
commitVars == << report, calls, reportRes, saveRes >>
mainVars == << article_limit, main_file, main_pc, main_processed, main_feedIdx,
              articles, main_summaries, savedAtLoad >>
feederVars == << config, file, run, pc, loopVars, probeVars, loadVars,
                feedStatus, entryHist, cut, commitVars, prev >>

\* ------------------------------------------------------------- __init__
\* self.processed_articles = self._load_processed(...)
Load ==
    /\ pc = "start"
    /\ \E ioError \in BOOLEAN :
         /\ processed_articles' = LoadProcessed(file, ioError)
         /\ snapshot' = LoadProcessed(file, ioError)
    /\ fileAtStart' = file
    /\ pc' = "probe"
    /\ UNCHANGED << mainVars, config, file, run, loopVars, probeVars, feedStatus,
                    entryHist, cut, commitVars, prev >>

\* _check_model_accessible: the first chat call.
Probe ==
    /\ pc = "probe"
    /\ \E res \in {"ok", "404", "error"} :
         /\ probeRes' = res
         /\ modelOk' = (res = "ok")
         /\ pc' = AfterProbe(res)
    /\ UNCHANGED << mainVars, config, file, run, loopVars, pullRes, reprobeRes, pulls,
                    reprobes, loadVars, feedStatus, entryHist, cut,
                    commitVars, prev >>

\* self.ollama_client.pull(self.ollama_model)
Pull ==
    /\ pc = "pull"
    /\ pulls' = pulls + 1
    /\ \E res \in {"ok", "error"} :
         /\ pullRes' = res
         /\ pc' = AfterPull(res)
    /\ UNCHANGED << mainVars, config, file, run, loopVars, probeRes, reprobeRes,
                    reprobes, modelOk, loadVars, feedStatus, entryHist, cut,
                    commitVars, prev >>

\* the chat call after the pull
Reprobe ==
    /\ pc = "reprobe"
    /\ reprobes' = reprobes + 1
    /\ \E res \in {"ok", "error"} :
         /\ reprobeRes' = res
         /\ modelOk' = (res = "ok")
         /\ pc' = AfterReprobe(res)
    /\ UNCHANGED << mainVars, config, file, run, loopVars, probeRes, pullRes, pulls,
                    loadVars, feedStatus, entryHist, cut, commitVars,
                    prev >>

\* -------------------------------------------------------- process_feeds
\* summaries = []; current_processed = set(); the for loop starts.  The
\* history of the construction ends here.
ProcessFeedsBegin ==
    /\ pc = "ready"
    /\ summaries' = <<>>
    /\ current_processed' = {}
    /\ feedIdx' = 1
    /\ pc' = "parse"
    /\ probeRes' = "none"
    /\ pullRes' = "none"
    /\ reprobeRes' = "none"
    /\ pulls' = 0
    /\ reprobes' = 0
    /\ UNCHANGED << mainVars, config, file, run, entryIdx, count, modelOk, loadVars,
                    feedStatus, entryHist, cut, commitVars, prev >>

\* feed = feedparser.parse(feed_url); if feed.bozo: continue
ParseFeed ==
    /\ pc = "parse"
    /\ feedIdx <= Len(feeds)
    /\ \E st \in ParseStatuses :
         /\ feedStatus' = Append(feedStatus, st)
         /\ IF st = "ok"
            THEN /\ pc' = "entries"
                 /\ feedIdx' = feedIdx
                 /\ entryIdx' = 1
            ELSE /\ pc' = "parse"
                 /\ feedIdx' = AfterAbandoned(feedIdx)
                 /\ entryIdx' = 0
    /\ count' = 0
    /\ UNCHANGED << mainVars, config, file, run, summaries, current_processed, probeVars,
                    loadVars, entryHist, cut, commitVars, prev >>

\* The kind of an entry as the feed and the loaded dedup set determine it.
KindOf(entry) ==
    IF Eligible(ArticleIdentifier(entry), snapshot) THEN entry.out ELSE "inel"

\* One iteration of "for entry in feed.entries" that does not break.
ProcessEntry ==
    /\ pc = "entries"
    /\ ~CapReached(count, articles_per_feed)
    /\ \E entry \in NextEntries :
        LET article_id == ArticleIdentifier(entry)
            eligible == Eligible(article_id, FilterSet(processed_articles, current_processed))
            raised == eligible /\ entry.out = "raise"
        IN  /\ IF eligible /\ entry.out = "ok"
               THEN /\ summaries' = Append(summaries,
                                       [feed |-> feedIdx, article_id |-> article_id])
                    /\ current_processed' = current_processed \cup {article_id}
                    /\ count' = CountAfterSuccess(count)
               ELSE UNCHANGED << summaries, current_processed, count >>
            /\ IF raised
               THEN /\ pc' = "parse"
                    /\ feedIdx' = AfterAbandoned(feedIdx)
                    /\ entryIdx' = 0
                    /\ cut' = TRUE
                    /\ lastKind' = "none"
                    /\ lastId' = NoId
                    /\ lastAttempted' = FALSE
                    /\ eligBefore' = 0
               ELSE /\ pc' = "entries"
                    /\ feedIdx' = feedIdx
                    /\ entryIdx' = entryIdx + 1
                    /\ cut' = cut
                    /\ lastKind' = KindOf(entry)
                    /\ lastId' = article_id
                    /\ lastAttempted' = eligible
                    /\ eligBefore' = IF lastKind \in {"none", "inel"}
                                     THEN eligBefore ELSE eligBefore + 1
    /\ UNCHANGED << mainVars, config, file, run, probeVars, loadVars, feedStatus,
                    commitVars, prev >>

\* if count >= self.articles_per_feed: break   (an entry was still to come)
CapBreak ==
    /\ pc = "entries"
    /\ CapReached(count, articles_per_feed)
    /\ NextEntries # {}
    /\ pc' = "parse"
    /\ feedIdx' = feedIdx + 1
    /\ entryIdx' = 0
    /\ cut' = TRUE
    /\ lastKind' = "none"
    /\ lastId' = NoId
    /\ lastAttempted' = FALSE
    /\ eligBefore' = 0
    /\ UNCHANGED << mainVars, config, file, run, count, summaries, current_processed,
                    probeVars, loadVars, feedStatus, commitVars, prev >>

\* feed.entries is exhausted
FeedExhausted ==
    /\ pc = "entries"
    /\ LoopOver
    /\ pc' = "parse"
    /\ feedIdx' = feedIdx + 1
    /\ entryIdx' = 0
    /\ lastKind' = "none"
    /\ lastId' = NoId
    /\ lastAttempted' = FALSE
    /\ eligBefore' = 0
    /\ UNCHANGED << mainVars, config, file, run, count, summaries, current_processed,
                    probeVars, loadVars, feedStatus, cut, commitVars, prev >>

\* After the last feed: report, update and save, or nothing at all.
Commit ==
    /\ pc = "parse"
    /\ feedIdx > Len(feeds)
    /\ IF ShouldCommit(summaries)
       THEN \E rr \in {"ok", "fail"}, sr \in {"ok", "failOpen", "failWrite"} :
              /\ reportRes' = rr
              /\ report' = IF rr = "ok"
                           THEN [written |-> TRUE, items |-> summaries]
                           ELSE NoReport
              /\ processed_articles' = CommitSet(processed_articles, current_processed)
              /\ saveRes' = sr
              /\ file' = SaveProcessed(file, CommitSet(processed_articles, current_processed), sr)
              /\ calls' = {"report", "save"}
       ELSE UNCHANGED << report, reportRes, processed_articles, saveRes, file, calls >>
    /\ pc' = "done"
    /\ UNCHANGED << mainVars, config, run, loopVars, probeVars, snapshot, fileAtStart,
                    feedStatus, entryHist, cut, prev >>

\* The program is started again (cron, a user): a new process, the same files.
NextRun ==
    /\ pc \in {"done", "aborted"}
    /\ run < MaxRuns
    /\ run' = run + 1
    /\ prev' = CASE pc = "done" /\ saveRes \in {"none", "ok"} /\ ~cut -> "clean"
                  [] pc = "done" /\ saveRes \in {"none", "ok"} /\ cut -> "cut"
                  [] OTHER -> "none"
    /\ pc' = "start"
    /\ processed_articles' = {}
    /\ feedIdx' = 0
    /\ entryIdx' = 0
    /\ count' = 0
    /\ summaries' = <<>>
    /\ current_processed' = {}
    /\ report' = NoReport
    /\ probeRes' = "none"
    /\ pullRes' = "none"
    /\ reprobeRes' = "none"
    /\ pulls' = 0
    /\ reprobes' = 0
    /\ modelOk' = FALSE
    /\ snapshot' = {}
    /\ fileAtStart' = file
    /\ feedStatus' = <<>>
    /\ lastKind' = "none"
    /\ lastId' = NoId
    /\ lastAttempted' = FALSE
    /\ eligBefore' = 0
    /\ cut' = FALSE
    /\ calls' = {}
    /\ reportRes' = "none"
    /\ saveRes' = "none"
    /\ UNCHANGED << mainVars, config, file >>

Next ==
    \/ Load
    \/ Probe
    \/ Pull
    \/ Reprobe
    \/ ProcessFeedsBegin
    \/ ParseFeed
    \/ ProcessEntry
    \/ CapBreak
    \/ FeedExhausted
    \/ Commit
    \/ NextRun

Spec == Init /\ [][Next]_vars
SpecTwice == InitTwice /\ [][Next]_vars

\* ============================================================ src/main.py
Range(seq) == { seq[i] : i \in DOMAIN seq }
Min(m, n) == IF m <= n THEN m ELSE n

\* deque(file, article_limit): the last article_limit lines of the file
LastLines(lines, limit) ==
    SubSeq(lines, Len(lines) - Min(limit, Len(lines)) + 1, Len(lines))

\* load_processed_articles(file_path, article_limit)
LoadProcessedArticles(f, limit) ==
    IF f.exists THEN Range(LastLines(f.lines, limit)) ELSE {}

\* save_processed_article(article_link, file_path): open(..., 'a') and write
SaveProcessedArticle(f, article_link) ==
    [exists |-> TRUE, lines |-> Append(f.lines, article_link)]

\* entry.get('link', 'No_URL_available')
ArticleLink(entry) ==
    IF entry.link = NoLinkKey THEN NoUrlAvailable ELSE entry.link

\* the test of fetch_valid_articles on one entry
ValidArticle(entry, processed) ==
    /\ ArticleLink(entry) # NoId
    /\ ArticleLink(entry) \notin processed
    /\ entry.content = "text"

RECURSIVE LinksOfValid(_, _)
LinksOfValid(entries, processed) ==
    IF entries = <<>> THEN <<>>
    ELSE IF ValidArticle(Head(entries), processed)
         THEN << ArticleLink(Head(entries)) >> \o LinksOfValid(Tail(entries), processed)
         ELSE LinksOfValid(Tail(entries), processed)

\* fetch_valid_articles(url, article_limit, processed_articles), as the links
\* of the articles returned; <<>> stands for None
FetchValidArticles(entries, limit, processed) ==
    LinksOfValid(SubSeq(entries, 1, Min(limit, Len(entries))), processed)

\* ensure_model_available: returns, or raises and main() returns at once
AfterEnsure(probe, pull) ==
    IF probe = "ok" \/ (probe = "404" /\ pull = "ok") THEN "load" ELSE "exit"

InitMain ==
    /\ feeds = [i \in 1..NumFeeds |-> i]
    /\ articles_per_feed = 1
    /\ web = [mode |-> "live", docs |-> <<>>]
    /\ file = AbsentFile
    /\ run = 1
    /\ prev = "none"
    /\ FreshRun
    /\ article_limit \in PerFeedChoices
    /\ main_file = NoLinksFile
    /\ FreshMain

\* ensure_model_available(config['ollama_model'])
MainEnsureModel ==
    /\ main_pc = "ensure"
    /\ \E probe \in ModelProbes, pull \in {"ok", "fail"} :
         main_pc' = AfterEnsure(probe, pull)
    /\ UNCHANGED << feederVars, article_limit, main_file, main_processed,
                    main_feedIdx, articles, main_summaries, savedAtLoad >>

\* processed_articles = load_processed_articles(processed_articles_file, article_limit)
MainLoad ==
    /\ main_pc = "load"
    /\ main_processed' = LoadProcessedArticles(main_file, article_limit)
    /\ savedAtLoad' = Range(main_file.lines)
    /\ main_feedIdx' = 1
    /\ main_pc' = "fetch"
    /\ UNCHANGED << feederVars, article_limit, main_file, articles, main_summaries >>

\* articles = fetch_valid_articles(feed_url, article_limit, processed_articles);
\* a feed with no valid article is noted as invalid and the loop goes on
MainFetch ==
    /\ main_pc = "fetch"
    /\ main_feedIdx <= NumFeeds
    /\ \E entries \in SeqsUpTo(MainEntries, MaxEntries) :
         /\ articles' = FetchValidArticles(entries, article_limit, main_processed)
         /\ IF articles' = <<>>
               THEN main_feedIdx' = main_feedIdx + 1 /\ main_pc' = "fetch"
               ELSE main_feedIdx' = main_feedIdx /\ main_pc' = "summarize"
    /\ UNCHANGED << feederVars, article_limit, main_file, main_processed,
                    main_summaries, savedAtLoad >>

\* one turn of "for index, article in enumerate(articles, 1)": summarize_article
\* returns a summary or None; save_processed_article appends the link, or
\* raises and ends main()
MainSummarize ==
    /\ main_pc = "summarize"
    /\ articles # <<>>
    /\ Len(main_file.lines) < MaxLines
    /\ \E res \in {"ok", "none", "saveRaises"} :
         /\ main_summaries' = IF res = "none" THEN main_summaries
                               ELSE Append(main_summaries, Head(articles))
         /\ main_file' = IF res = "ok"
                            THEN SaveProcessedArticle(main_file, Head(articles))
                            ELSE main_file
         /\ articles' = Tail(articles)
         /\ IF res = "saveRaises"
               THEN main_pc' = "crashed" /\ main_feedIdx' = main_feedIdx
               ELSE IF Tail(articles) = <<>>
                      THEN main_pc' = "fetch" /\ main_feedIdx' = main_feedIdx + 1
                      ELSE main_pc' = "summarize" /\ main_feedIdx' = main_feedIdx
    /\ UNCHANGED << feederVars, article_limit, main_processed, savedAtLoad >>

\* after the loop: the invalid-feeds file and the two report files are written
MainWriteReports ==
    /\ main_pc = "fetch"
    /\ main_feedIdx > NumFeeds
    /\ main_pc' = "done"
    /\ UNCHANGED << feederVars, article_limit, main_file, main_processed,
                    main_feedIdx, articles, main_summaries, savedAtLoad >>

\* the script is started again against the same processed-links file
MainNextRun ==
    /\ main_pc \in {"done", "exit", "crashed"}
    /\ main_pc' = "ensure"
    /\ main_processed' = {}
    /\ main_feedIdx' = 0
    /\ articles' = <<>>
    /\ main_summaries' = <<>>
    /\ savedAtLoad' = {}
    /\ UNCHANGED << feederVars, article_limit, main_file >>

NextMain ==
    \/ MainEnsureModel
    \/ MainLoad
    \/ MainFetch
    \/ MainSummarize
    \/ MainWriteReports
    \/ MainNextRun

SpecMain == InitMain /\ [][NextMain]_vars

\* ============================================================ properties
SummaryIds(seq) == { seq[i].article_id : i \in DOMAIN seq }
FromFeed(f) == { i \in DOMAIN summaries : summaries[i].feed = f }
LoadedAll == snapshot = FileIds(fileAtStart)

\* C1 (no double-report): no summary of a run was produced from an entry
\* whose ArticleIdentifier is in the dedup set loaded at the start of the run,
\* and no such identifier is among the newly processed ones.
NoDoubleReport ==
    /\ \A i \in DOMAIN summaries : summaries[i].article_id \notin snapshot
    /\ current_processed \cap snapshot = {}

\* An entry whose identifier was loaded has just been passed over, in a run
\* that summarized another entry.
NoDoubleReportWitness ==
    /\ snapshot # {}
    /\ lastKind = "inel"
    /\ lastId \in snapshot
    /\ summaries # <<>>

CapRespected ==
    /\ \A f \in DOMAIN feeds : Cardinality(FromFeed(f)) <= articles_per_feed
    /\ count <= articles_per_feed
    /\ current_processed = SummaryIds(summaries)

\* A feed has yielded articles_per_feed summaries and the loop over its
\* entries still has an entry to come.
CapRespectedWitness ==
    /\ pc = "entries"
    /\ count = articles_per_feed
    /\ Cardinality(FromFeed(feedIdx)) = articles_per_feed
    /\ NextEntries # {}

\* C4 as claimed (first N eligible): an entry reached by the loop has its
\* content resolved exactly when it is eligible and fewer than
\* articles_per_feed eligible entries precede it in its feed.
FirstNEligibleOnly ==
    lastKind # "none" =>
        (lastAttempted <=> (lastKind # "inel" /\ eligBefore < articles_per_feed))

\* C4 amended: an entry is reached only while fewer than articles_per_feed
\* summaries were produced from its feed, and an entry reached has its content
\* resolved exactly when it is eligible; skipped and failed entries do not
\* count toward the cap.
FirstNSummarizedOnly ==
    lastKind # "none" =>
        /\ lastAttempted <=> (lastKind # "inel")
        /\ count - (IF lastKind = "ok" THEN 1 ELSE 0) < articles_per_feed
        /\ count = Cardinality(FromFeed(feedIdx))

\* An eligible entry was summarized although articles_per_feed eligible
\* entries precede it in the feed.
FirstNSummarizedWitness ==
    /\ lastKind = "ok"
    /\ lastAttempted
    /\ eligBefore >= articles_per_feed

\* C5 (all-failure run): a run that collected no summary called neither
\* _generate_report nor _save_processed, wrote no report and left the dedup
\* file as it was.
AllFailureNoTrace ==
    (pc = "done" /\ summaries = <<>>)
        => (calls = {} /\ ~report.written /\ file = fileAtStart)

\* A run ended without a summary although a feed that parsed held an
\* eligible entry: its summarization failed.
AllFailureWitness ==
    /\ pc = "done"
    /\ summaries = <<>>
    /\ ~Live
    /\ \E f \in DOMAIN feeds :
         /\ feedStatus[f] = "ok"
         /\ Len(Doc(f).entries) >= 1
         /\ Doc(f).entries[1].out = "fail"
         /\ Eligible(ArticleIdentifier(Doc(f).entries[1]), snapshot)

\* C6 as claimed (dedup set never loses identifiers): every identifier in
\* the dedup file when a run starts is in it when the run has ended; stated
\* for the runs that wrote the file, the load having failed or not.
NeverLosesIds ==
    (pc = "done" /\ saveRes = "ok")
        => FileIds(fileAtStart) \subseteq FileIds(file)

\* C7 as claimed (dedup set matches what was reported): the identifiers a run
\* added to the dedup file are those of the summaries in the run's report.
DedupMatchesReport ==
    pc = "done" =>
        (FileIds(file) \ FileIds(fileAtStart)) = SummaryIds(report.items)

\* C8 (feed isolation): a feed abandoned at parse (bozo, or parse raised)
\* contributes no summary and no identifier; when the run ends every feed of
\* the list was parsed, and whatever was collected went to _generate_report
\* and _save_processed.
FeedIsolation ==
    /\ \A i \in DOMAIN summaries :
         /\ summaries[i].feed \in DOMAIN feedStatus
         /\ feedStatus[summaries[i].feed] = "ok"
    /\ current_processed \subseteq SummaryIds(summaries)
    /\ pc = "done" => Len(feedStatus) = Len(feeds)
    /\ (pc = "done" /\ summaries # <<>>) =>
         /\ calls = {"report", "save"}
         /\ reportRes = "ok" => (report.written /\ report.items = summaries)
         /\ saveRes = "ok" => current_processed \subseteq FileIds(file)

\* The first feed was bozo and the run still reported and saved a summary of
\* the feed after it.
FeedIsolationWitness ==
    /\ pc = "done"
    /\ Len(feedStatus) >= 2
    /\ feedStatus[1] = "bozo"
    /\ \E i \in DOMAIN summaries : summaries[i].feed = 2
    /\ report.written
    /\ saveRes = "ok"
    /\ current_processed \subseteq FileIds(file)

\* C9 (filtering uses the start-of-run snapshot): self.processed_articles
\* stays the loaded set until the commit, which adds exactly the newly
\* processed identifiers; an entry is resolved exactly when its identifier is
\* non-empty and absent from the loaded set, whatever this run has collected.
SnapshotOnlyFilter ==
    /\ pc # "done" => processed_articles = snapshot
    /\ pc = "done" =>
         processed_articles =
            IF summaries # <<>> THEN snapshot \cup current_processed ELSE snapshot
    /\ lastKind # "none" => (lastAttempted <=> Eligible(lastId, snapshot))

\* Two feeds of one run each yielded a summary of the same identifier.
SnapshotOnlyFilterWitness ==
    \E i, j \in DOMAIN summaries :
        /\ summaries[i].feed # summaries[j].feed
        /\ summaries[i].article_id = summaries[j].article_id

ProbeFailed ==
    probeRes = "error" \/ pullRes = "error" \/ reprobeRes = "error"

\* C10 as claimed (readiness gates feed work): no feed work without a
\* successful probe; after a 404 exactly one pull and exactly one re-probe
\* were attempted; any failure ends the construction by raising.
ReadinessExactlyOneReprobe ==
    /\ pc \in {"parse", "entries", "done"} => modelOk
    /\ (pc \in {"ready", "aborted"} /\ probeRes = "404") =>
         (pulls = 1 /\ reprobes = 1)
    /\ ProbeFailed => pc = "aborted"
    /\ pc = "aborted" => (feedIdx = 0 /\ feedStatus = <<>> /\ summaries = <<>>)

\* C10 amended: after a 404 exactly one pull was attempted, and one re-probe
\* exactly when that pull succeeded; without a 404 neither is attempted.
ReadinessGatesFeedWork ==
    /\ pc \in {"parse", "entries", "done"} => modelOk
    /\ (pc \in {"ready", "aborted"} /\ probeRes = "404") =>
         (pulls = 1 /\ reprobes = (IF pullRes = "ok" THEN 1 ELSE 0))
    /\ (pc \in {"ready", "aborted"} /\ probeRes # "404") =>
         (pulls = 0 /\ reprobes = 0)
    /\ pc = "ready" => modelOk
    /\ ProbeFailed => pc = "aborted"
    /\ pc = "aborted" =>
         (~modelOk /\ feedIdx = 0 /\ feedStatus = <<>> /\ summaries = <<>>)

\* The model was missing, was pulled and answered the second probe: the
\* construction has succeeded after one pull and one re-probe.
ReadinessWitness ==
    /\ pc = "ready"
    /\ probeRes = "404"
    /\ pulls = 1
    /\ reprobes = 1
    /\ modelOk

\* ------------------------------------------------------------------- C11
\* C11 (as stated): in the main.py variant load_processed_articles returns
\* every link that save_processed_article appended to the processed-links file
\* in an earlier run, for any number of saved links and any article_limit, and
\* fetch_valid_articles returns no article whose link was already saved.
LoadReturnsEverySavedLink ==
    main_pc \in {"fetch", "summarize", "done"} =>
        /\ savedAtLoad \subseteq main_processed
        /\ \A i \in DOMAIN articles : articles[i] \notin savedAtLoad

====
